---- MODULE Spec2Model ----
(***************************************************************************)
(* A model of subcommand.py: option declaration (opt, noargs), command     *)
(* discovery (Commands._methods_with_opts), the argument binder            *)
(* (Commands._parse_args, _get_args, _acceptable_args, _call_method), the  *)
(* group dispatcher (Commands.__call__), the flat wrapper (MethodWrapper)  *)
(* and the two top-level dispatchers (SubParser, Parser).                  *)
(*                                                                         *)
(* A Python string is a sequence of pieces.  The characters '_' and '-'    *)
(* are always pieces of their own, every other piece is a run of other     *)
(* characters, so 'return_non_zero' is <<"return","_","non","_","zero">>   *)
(* and re.sub('_', '-', s) acts on the pieces.                             *)
(*                                                                         *)
(* A Python value is a record [tag, n, s, m]: None, an int, a bool, a      *)
(* string or a dict from strings to values.                                *)
(***************************************************************************)
EXTENDS Integers, Sequences, FiniteSets, TLC

VARIABLES
    parser,     \* the dispatcher object (SubParser or Parser) under use
    cmds,       \* the objects handed to the dispatcher's constructor
    last,       \* what the last operation was given, did and returned
    twin        \* a second dispatcher over its own, equal objects: [parser, cmds, last]

vars == <<parser, cmds, last, twin>>

----------------------------------------------------------------------------
(* Bounds of the model *)

MaxLen == 4         \* longest token list given to run() in one process
MaxReuseLen == 2    \* longest token list when a Commands instance is reused
MaxRest == 3        \* longest tail of the token lists given to the two dispatchers
MaxIdLen == 3       \* longest member identifier, in pieces, at discovery
MaxGroups == 3      \* longest list handed to a dispatcher constructor

----------------------------------------------------------------------------
(* Strings *)

\* re.sub(pat, repl, s) for a one-character pattern
re_sub(pat, repl, s) == [i \in 1..Len(s) |-> IF s[i] = pat THEN repl ELSE s[i]]

\* s.startswith('__')
startswith__(s) == Len(s) >= 2 /\ s[1] = "_" /\ s[2] = "_"

\* all sequences over S of length at most n
SeqsUpTo(S, n) == UNION {[1..k -> S] : k \in 0..n}

\* The list l without its element at index i: list.pop(i)
pop(l, i) == [j \in 1..(Len(l) - 1) |-> IF j < i THEN l[j] ELSE l[j + 1]]

\* index of the first element of l that is in names, 0 if there is none:
\* for index, arg in enumerate(l): if arg in names: ...
FirstIn(l, names) ==
    IF \E i \in 1..Len(l) : l[i] \in names
    THEN CHOOSE i \in 1..Len(l) :
            /\ l[i] \in names
            /\ \A j \in 1..(i - 1) : l[j] \notin names
    ELSE 0

----------------------------------------------------------------------------
(* Values *)

EmptyMap == [k \in {} |-> 0]

None == [tag |-> "none", n |-> 0, s |-> <<>>, m |-> EmptyMap]
IntV(i) == [tag |-> "int", n |-> i, s |-> <<>>, m |-> EmptyMap]
BoolV(b) == [tag |-> "bool", n |-> IF b THEN 1 ELSE 0, s |-> <<>>, m |-> EmptyMap]
StrV(s) == [tag |-> "str", n |-> 0, s |-> s, m |-> EmptyMap]
DictV(m) == [tag |-> "dict", n |-> 0, s |-> <<>>, m |-> m]

\* Python truth value of v: `not v` is ~Truthy(v)
Truthy(v) ==
    CASE v.tag = "none" -> FALSE
      [] v.tag = "int"  -> v.n # 0
      [] v.tag = "bool" -> v.n # 0
      [] v.tag = "str"  -> Len(v.s) > 0
      [] v.tag = "dict" -> DOMAIN v.m # {}

\* d with d[k] = v set (dict item assignment)
Put(d, k, v) == [x \in (DOMAIN d) \cup {k} |-> IF x = k THEN v ELSE d[x]]

----------------------------------------------------------------------------
(* opt, noargs: option declarations on a method *)

\* Option = namedtuple('Option', ['args', 'kwargs']); the keyword arguments
\* the model gives a meaning to are action, const, default, type and nargs
Option(args, action, const, default, type, nargs) ==
    [args |-> args, action |-> action, const |-> const, default |-> default,
     type |-> type, nargs |-> nargs]

\* a function object: def name(argnames..., with the trailing defaults)
Def(name, argnames, defaults) ==
    [name |-> name, argnames |-> argnames, defaults |-> defaults,
     hasOptions |-> FALSE, options |-> <<>>]

\* @opt(*args, **kwargs) applied to method; args is the Option's args
opt(method, o) ==
    LET m1 == IF ~method.hasOptions
              THEN [method EXCEPT !.hasOptions = TRUE, !.options = <<>>]
              ELSE method
    IN  IF Len(o.args) > 0
        THEN [m1 EXCEPT !.options = Append(m1.options, o)]
        ELSE m1

\* @noargs applied to method
noargs(method) == [method EXCEPT !.hasOptions = TRUE, !.options = <<>>]

----------------------------------------------------------------------------
(* The tokenizer: ArgumentParser.add_argument and parse_args as            *)
(* Commands._parse_args uses them.  Modelled for the declarations and      *)
(* tokens the model draws: exact option strings, one value per 'store'     *)
(* option, positionals filled left to right, '-h' handled by the parser.   *)

\* a command-line token that argparse takes for an option string
IsOptionString(t) == Len(t) >= 2 /\ t[1] = "-"

\* s.lstrip('-')
RECURSIVE lstrip_dash(_)
lstrip_dash(s) ==
    IF Len(s) > 0 /\ s[1] = "-" THEN lstrip_dash(Tail(s)) ELSE s

IsPositional(o) == ~IsOptionString(o.args[1])

\* the attribute name argparse stores an option under: a positional's own
\* name; for a flag the first long option string (else the first one),
\* without its leading dashes and with '-' turned into '_'
Dest(o) ==
    IF IsPositional(o) THEN o.args[1]
    ELSE LET long == {i \in 1..Len(o.args) :
                         Len(o.args[i]) >= 3 /\ o.args[i][1] = "-"
                                             /\ o.args[i][2] = "-"}
             pick == IF long = {} THEN 1
                     ELSE CHOOSE i \in long : \A j \in long : i <= j
         IN  re_sub("-", "_", lstrip_dash(o.args[pick]))

\* int(piece) for the one-digit strings
DigitValue(p) ==
    CASE p = "0" -> 0 [] p = "1" -> 1 [] p = "2" -> 2 [] p = "3" -> 3
      [] p = "4" -> 4 [] p = "5" -> 5 [] p = "6" -> 6 [] p = "7" -> 7
      [] p = "8" -> 8 [] p = "9" -> 9 [] OTHER -> -1

\* type(token) succeeds
Converts(type, t) ==
    type = "int" => (Len(t) = 1 /\ DigitValue(t[1]) >= 0)

\* type(token)
Convert(type, t) == IF type = "int" THEN IntV(DigitValue(t[1])) ELSE StrV(t)

HelpStrings == {<<"-", "h">>, <<"-", "-", "help">>}

Failed == [ok |-> FALSE, ns |-> EmptyMap]

\* the namespace before any token is read: every dest holds its default
Defaults(options) ==
    [d \in {Dest(options[i]) : i \in 1..Len(options)} |->
        LET i == CHOOSE j \in 1..Len(options) :
                    /\ Dest(options[j]) = d
                    /\ \A k \in 1..(j - 1) : Dest(options[k]) # d
        IN  options[i].default]

\* parse tokens[i..] with p positionals filled and namespace ns so far
RECURSIVE Scan(_, _, _, _, _)
Scan(options, tokens, i, p, ns) ==
    LET positionals == SelectSeq(options, IsPositional)
        flagged(t) == {j \in 1..Len(options) :
                          /\ ~IsPositional(options[j])
                          /\ \E k \in 1..Len(options[j].args) :
                                 options[j].args[k] = t}
    IN
    IF i > Len(tokens)
    THEN IF \A q \in (p + 1)..Len(positionals) : positionals[q].nargs = "?"
         THEN [ok |-> TRUE, ns |-> ns]
         ELSE Failed                  \* too few arguments
    ELSE
      LET t == tokens[i] IN
      IF IsOptionString(t)
      THEN IF t \in HelpStrings \/ flagged(t) = {}
           THEN Failed                \* help printed, or unrecognized argument
           ELSE LET o == options[CHOOSE j \in flagged(t) :
                                     \A k \in flagged(t) : j <= k]
                IN  IF o.action = "store_const"
                    THEN Scan(options, tokens, i + 1, p, Put(ns, Dest(o), o.const))
                    ELSE IF /\ i + 1 <= Len(tokens)
                            /\ ~IsOptionString(tokens[i + 1])
                            /\ Converts(o.type, tokens[i + 1])
                         THEN Scan(options, tokens, i + 2, p,
                                   Put(ns, Dest(o), Convert(o.type, tokens[i + 1])))
                         ELSE Failed  \* expected one argument / invalid value
      ELSE IF p < Len(positionals) /\ Converts(positionals[p + 1].type, t)
           THEN Scan(options, tokens, i + 1, p + 1,
                     Put(ns, Dest(positionals[p + 1]),
                         Convert(positionals[p + 1].type, t)))
           ELSE Failed                \* unrecognized arguments / invalid value

\* vars(parser.parse_args(tokens)) after parser.add_argument for each option;
\* ok is FALSE when parse_args leaves through SystemExit
parse_args(options, tokens) == Scan(options, tokens, 1, 0, Defaults(options))

\* Commands._parse_args: the method's options, then the group's globals;
\* the keys of the result with every '-' turned into '_', in the order the
\* namespace holds them (a later key overwrites an equal earlier one)
RECURSIVE convert_keys(_, _, _)
convert_keys(options, ns, i) ==
    IF i = 0 THEN EmptyMap
    ELSE IF \E j \in 1..(i - 1) : Dest(options[j]) = Dest(options[i])
         THEN convert_keys(options, ns, i - 1)
         ELSE Put(convert_keys(options, ns, i - 1),
                  re_sub("-", "_", Dest(options[i])), ns[Dest(options[i])])

\* for opt in method.options, then for opt in self.globals: add_argument
all_options(self, method) ==
    method.options \o (IF self.hasGlobals THEN self.globals ELSE <<>>)

\* the loop over vars(results).items() on what parse_args returned
converted(options, parsed) ==
    IF parsed.ok
    THEN [ok |-> TRUE, results |-> convert_keys(options, parsed.ns, Len(options))]
    ELSE [ok |-> FALSE, results |-> EmptyMap]

_parse_args(self, method, args) ==
    converted(all_options(self, method),
              parse_args(all_options(self, method), args))

----------------------------------------------------------------------------
(* Commands: discovery *)

\* Commands._methods_with_opts over dir(self): members is the set of
\* [name, obj] pairs dir(self) and getattr(self, name) give.  Names that
\* start with '__' are skipped; a member whose object has an 'options'
\* attribute is entered under its name with '_' turned into '-'.  dir() is
\* sorted, so of two members with one converted name the later name stays.
Before(a, b) ==
    \E i \in 1..Len(b) :
        /\ \A j \in 1..(i - 1) : j <= Len(a) /\ a[j] = b[j]
        /\ i > Len(a) \/ (a[i] # b[i] /\ a[i] = "-")

\* a discovery that does not pass over the names that start with '__'
DiscoversDunders(members) ==
    LET qualifying == {mb \in members : mb.obj.hasOptions}
    IN  [n \in {re_sub("_", "-", mb.name) : mb \in qualifying} |->
            (CHOOSE mb \in qualifying : re_sub("_", "-", mb.name) = n).obj]

_methods_with_opts(members) ==
    LET qualifying == {mb \in members :
                          ~startswith__(mb.name) /\ mb.obj.hasOptions}
        names == {re_sub("_", "-", mb.name) : mb \in qualifying}
    IN  [n \in names |->
            LET same == {mb \in qualifying : re_sub("_", "-", mb.name) = n}
            IN  (CHOOSE mb \in same :
                    \A other \in same : other = mb \/ Before(other.name, mb.name)).obj]

\* the members every Commands object has through its class
CommandsMethods ==
    {<<"pre", "_", "command">>, <<"bash", "_", "completion">>, <<"remove">>,
     <<"split">>, <<"opt">>, <<"_", "methods", "_", "with", "_", "opts">>,
     <<"_", "call", "_", "method">>, <<"_", "parse", "_", "args">>, <<"help">>,
     <<"_", "get", "_", "args">>, <<"_", "acceptable", "_", "args">>,
     <<"_", "_", "init", "_", "_">>, <<"_", "_", "call", "_", "_">>}

Plain(name) == [name |-> name, obj |-> Def(name, <<<<"self">>>>, <<>>)]

\* Commands.__init__ on an object of a class with the given members:
\* self._commands = self._methods_with_opts(); self.prog = None
Commands__init__(cls, members) ==
    [cls |-> cls,
     members |-> {mb.name : mb \in members},
     _commands |-> _methods_with_opts(members),
     hasGlobals |-> FALSE,
     globals |-> <<>>,
     fields |-> [k \in {<<"prog">>} |-> None]]

\* Commands.opt: a group-wide option
Commands_opt(self, o) ==
    [self EXCEPT !.hasGlobals = TRUE,
                 !.globals = Append(IF self.hasGlobals THEN self.globals ELSE <<>>, o)]

\* hasattr(self, key)
hasattr(self, key) ==
    \/ key \in DOMAIN self.fields
    \/ key \in self.members
    \/ key = <<"_", "commands">>
    \/ self.hasGlobals /\ key = <<"globals">>

\* setattr(self, key, value) for a key that is none of _commands, globals
setattr(self, key, value) == [self EXCEPT !.fields = Put(self.fields, key, value)]

----------------------------------------------------------------------------
(* Commands: the argument binder *)

\* Commands._get_args: inspect.getargspec(func) gives the argument names
\* ('self' first) and the defaults of the last len(defaults) of them; each
\* default goes to its argument, every other argument but 'self' gets None
_get_args(func) ==
    LET n == Len(func.argnames)
        d == Len(func.defaults)
        withDefault == {func.argnames[i] : i \in (n - d + 1)..n}
        rest == {func.argnames[i] : i \in 1..(n - d)} \ {<<"self">>}
    IN  [a \in withDefault \cup rest |->
            IF a \in withDefault
            THEN func.defaults[(CHOOSE i \in (n - d + 1)..n :
                                    func.argnames[i] = a) - (n - d)]
            ELSE None]

\* a test that drops every false value: `if not _to[key]`
NoValueFalsy(v) == ~Truthy(v)

\* `_to[key] is None`: the argument has no value and is left out of the call
no_value(v) == v = None

\* `if key in _from: _to[key] = _from[key]`: the value _to[key] holds next
overwrite(_to, _from, key) == IF key \in DOMAIN _from THEN _from[key] ELSE _to[key]

\* `if 'args' in _to`
has_args(_to) == <<"args">> \in DOMAIN _to

\* Commands._acceptable_args: (kwargs, unused)
_acceptable_args(_to, _from) ==
    IF has_args(_to)
    THEN [kwargs |-> Put(_to, <<"args">>, DictV(_from)), unused |-> EmptyMap]
    ELSE LET _other == [k \in (DOMAIN _from) \ (DOMAIN _to) |-> _from[k]]
             kept == {k \in DOMAIN _to : ~no_value(overwrite(_to, _from, k))}
         IN  [kwargs |-> [k \in kept |-> overwrite(_to, _from, k)],
              unused |-> _other]

\* an attach without the hasattr test
AttachAlways(self, key) == TRUE

\* `if not hasattr(self, key)`
may_attach(self, key) == ~hasattr(self, key)

\* for key, value in mapping.items(): if not hasattr(self, key): setattr(...)
attach(self, mapping) ==
    [self EXCEPT !.fields =
        [k \in (DOMAIN self.fields) \cup {x \in DOMAIN mapping : may_attach(self, x)} |->
            IF k \in DOMAIN mapping /\ may_attach(self, k)
            THEN mapping[k] ELSE self.fields[k]]]

\* a test that reads only `'args' in kwargs`
RolledWheneverArgs(kwargs) == <<"args">> \in DOMAIN kwargs

\* `len(kwargs) == 1 and 'args' in kwargs`
all_rolled_into_args(kwargs) ==
    Cardinality(DOMAIN kwargs) = 1 /\ <<"args">> \in DOMAIN kwargs

----------------------------------------------------------------------------
(* The command methods of the test suite's CommandTest, and two methods    *)
(* that take the whole mapping as 'args'                                   *)

S(x) == <<x>>

Name_hello == S("hello")
Name_default == S("default")
Name_return_non_zero == <<"return", "_", "non", "_", "zero">>
Name_dump == S("dump")
Name_mixed == S("mixed")
Key_count == S("count")
Key_debug == S("debug")
Key_name == S("name")
Key_nodefault == S("nodefault")
Key_args == S("args")
Key_extra == S("extra")
Key_prog == S("prog")
Key__name == <<"_", "name">>

Tok_count == <<"-", "-", "count">>
Tok_nodefault == <<"-", "-", "nodefault">>
Tok_d == <<"-", "d">>
Tok_debug == <<"-", "-", "debug">>

\* @opt('--count', default=1, type=int) @opt('name') def hello(self, name, count=1)
hello ==
    opt(opt(Def(Name_hello, <<S("self"), Key_name, Key_count>>, <<IntV(1)>>),
            Option(<<Key_name>>, "store", None, None, "str", "1")),
        Option(<<Tok_count>>, "store", None, IntV(1), "int", "1"))

\* @opt('--nodefault') def default(self, nodefault='spam')
default ==
    opt(Def(Name_default, <<S("self"), Key_nodefault>>, <<StrV(S("spam"))>>),
        Option(<<Tok_nodefault>>, "store", None, None, "str", "1"))

\* @noargs def return_non_zero(self)
return_non_zero == noargs(Def(Name_return_non_zero, <<S("self")>>, <<>>))

\* @opt('--count', type=int) def dump(self, args): the only parameter is 'args'
dump ==
    opt(Def(Name_dump, <<S("self"), Key_args>>, <<>>),
        Option(<<Tok_count>>, "store", None, None, "int", "1"))

\* @opt('name', nargs='?') def mixed(self, args, extra='x'): 'args' and another
mixed ==
    opt(Def(Name_mixed, <<S("self"), Key_args, Key_extra>>, <<StrV(S("x"))>>),
        Option(<<Key_name>>, "store", None, None, "str", "?"))

\* what the body of a method does to self and returns, given its parameters
Body(self, method, bound) ==
    CASE method.name = Name_hello ->
            \* for x in range(count): self.count += 1; return 0
            [self |-> [self EXCEPT !.fields[Key_count] =
                          IntV(@.n + IF bound[Key_count].n > 0
                                     THEN bound[Key_count].n ELSE 0)],
             ret |-> IntV(0)]
      [] method.name = Name_default ->
            [self |-> self, ret |-> bound[Key_nodefault]]
      [] method.name = Name_return_non_zero ->
            [self |-> self, ret |-> IntV(1)]
      [] OTHER ->
            [self |-> self, ret |-> IntV(0)]

\* the method ran with its parameters bound and returned
Ran_body(bound, done) ==
    [outcome |-> "return", bound |-> bound, self |-> done.self, result |-> done.ret]

\* method(**kwargs): a parameter without a default that kwargs leaves out is
\* a TypeError; every other parameter left out takes its declared default
Call(self, method, kwargs) ==
    LET n == Len(method.argnames)
        d == Len(method.defaults)
        required == {method.argnames[i] : i \in 1..(n - d)} \ {S("self")}
        declared == [a \in {method.argnames[i] : i \in (n - d + 1)..n} |->
                        method.defaults[(CHOOSE i \in (n - d + 1)..n :
                                            method.argnames[i] = a) - (n - d)]]
        bound == [a \in (DOMAIN kwargs) \cup (DOMAIN declared) |->
                     IF a \in DOMAIN kwargs THEN kwargs[a] ELSE declared[a]]
    IN  IF required \subseteq DOMAIN kwargs
        THEN Ran_body(bound, Body(self, method, bound))
        ELSE [outcome |-> "TypeError", bound |-> EmptyMap, self |-> self,
              result |-> None]

----------------------------------------------------------------------------
(* Commands._call_method *)

\* an order that calls pre_command before the attributes are attached
HookBeforeAttach == <<"pre_command", "attach", "method">>

\* the statements of _call_method after the arguments are parsed, in order
steps_after_parse == <<"attach", "pre_command", "method">>

\* the second attach loop: the keys rolled into 'args'
attach_rolled(self, kwargs) ==
    IF all_rolled_into_args(kwargs) THEN attach(self, kwargs[Key_args].m) ELSE self

\* the invocation once both attach loops have left self as s
Attached(st, s) ==
    [st EXCEPT !.self = s, !.attached = s, !.events = Append(@, "attach")]

\* the invocation once method(**kwargs) has ended as call
Called(st, call) ==
    [st EXCEPT !.self = call.self, !.atCall = st.self, !.bound = call.bound,
               !.outcome = call.outcome, !.returned = call.result,
               !.events = Append(@, "method")]

\* one statement of _call_method acting on the state st of the invocation
Step(st, step, method, acc) ==
    CASE step = "attach" ->
            Attached(st, attach_rolled(attach(st.self, acc.unused), acc.kwargs))
      [] step = "pre_command" ->
            \* Commands.pre_command: pass
            [st EXCEPT !.atHook = st.self, !.events = Append(@, "pre_command")]
      [] step = "method" ->
            Called(st, Call(st.self, method, acc.kwargs))

\* a return that turns the value into an exit status
ExitStatus(v) == IF v.tag = "int" THEN v ELSE IntV(IF Truthy(v) THEN 1 ELSE 0)

\* `return method(**kwargs)`: the value handed up the call chain
passed_up(v) == v

RECURSIVE Steps(_, _, _, _, _)
Steps(st, steps, i, method, acc) ==
    IF i > Len(steps) THEN st
    ELSE Steps(Step(st, steps[i], method, acc), steps, i + 1, method, acc)

\* the invocation when parse_args has left through SystemExit
Exited(self) ==
    [self |-> self, tokenized |-> FALSE, parsed |-> EmptyMap, kwargs |-> EmptyMap,
     unused |-> EmptyMap, bound |-> EmptyMap, attached |-> self, atHook |-> self,
     atCall |-> self, events |-> <<"parse_args">>, outcome |-> "SystemExit",
     returned |-> None, result |-> None]

\* the invocation when parse_args has returned results and _acceptable_args
\* has split them into acc = (kwargs, unused)
Accepted(self, results, acc) ==
    [Exited(self) EXCEPT !.tokenized = TRUE, !.parsed = results,
                         !.kwargs = acc.kwargs, !.unused = acc.unused]

\* `return method(**kwargs)` at the end of the invocation st
Return(st) == [st EXCEPT !.result = passed_up(st.returned)]

\* the statements after _acceptable_args
after_accept(self, method, results, acc) ==
    Return(Steps(Accepted(self, results, acc), steps_after_parse, 1, method, acc))

\* the statements after _parse_args
after_parse(self, method, parsed) ==
    IF ~parsed.ok
    THEN Exited(self)
    ELSE after_accept(self, method, parsed.results,
                      _acceptable_args(_get_args(method), parsed.results))

_call_method(self, args, method) ==
    after_parse(self, method, _parse_args(self, method, args))

----------------------------------------------------------------------------
(* Objects handed to a dispatcher *)

\* object(): no attribute the library reads
BareObject ==
    [cls |-> "object", members |-> {}, _commands |-> EmptyMap,
     hasGlobals |-> FALSE, globals |-> <<>>, fields |-> EmptyMap]

CommandTestMembers ==
    {Plain(n) : n \in CommandsMethods} \cup
    {[name |-> m.name, obj |-> m] :
        m \in {hello, default, return_non_zero, dump, mixed}}

\* CommandTest(): Commands.__init__(self); self.opt('-d', '--debug',
\* action='store_const', const=True, default=False); self._name = name;
\* self.count = 0.  hasName = FALSE is the class without the _name line.
CommandTest(hasName, name) ==
    LET s0 == Commands__init__("CommandTest", CommandTestMembers)
        s1 == Commands_opt(s0, Option(<<Tok_d, Tok_debug>>, "store_const",
                                      BoolV(TRUE), BoolV(FALSE), "str", "1"))
        s2 == IF hasName THEN setattr(s1, Key__name, StrV(name)) ELSE s1
    IN  setattr(s2, Key_count, IntV(0))

----------------------------------------------------------------------------
(* MethodWrapper *)

\* a wrapper that keeps its own methods, so that the binder acts on it
WrapperActsOnItself(obj, method) ==
    [obj |-> obj, wrapper |-> TRUE, method |-> method, acts_on |-> "self",
     own |-> [cls |-> "MethodWrapper", members |-> CommandsMethods,
              _commands |-> EmptyMap, hasGlobals |-> FALSE, globals |-> <<>>,
              fields |-> EmptyMap]]

\* MethodWrapper.__init__(cmd, method): every attribute dir(self) lists is
\* set to getattr(cmd, name), so the wrapper's methods are cmd's bound
\* methods and act on cmd; own is the wrapper's own instance dictionary
MethodWrapper__init__(obj, method) ==
    [obj |-> obj, wrapper |-> TRUE, method |-> method, acts_on |-> "cmd",
     own |-> [cls |-> "MethodWrapper", members |-> CommandsMethods,
              _commands |-> EmptyMap, hasGlobals |-> FALSE, globals |-> <<>>,
              fields |-> EmptyMap]]

\* a Commands object as an entry of SubParser.sub_commands
Group(obj) ==
    [obj |-> obj, wrapper |-> FALSE, method |-> Def(<<>>, <<>>, <<>>),
     acts_on |-> "cmd", own |-> BareObject]

----------------------------------------------------------------------------
(* Dispatcher construction *)

\* `if not name` on getattr(cmd, '_name', None) is false
has_name(cmd) == Key__name \in DOMAIN cmd.fields /\ Truthy(cmd.fields[Key__name])

\* result[name] = cmd for the objects at the indices kept, in list order
named(sub_commands, kept) ==
    [n \in {sub_commands[i].fields[Key__name].s : i \in kept} |->
        Group(CHOOSE i \in kept :
                /\ sub_commands[i].fields[Key__name].s = n
                /\ \A j \in kept :
                      sub_commands[j].fields[Key__name].s = n => j <= i)]

\* a _build_dict that passes over an object without a name
SkipsNameless(sub_commands) ==
    [ok |-> TRUE, error |-> "",
     result |-> named(sub_commands,
                      {i \in 1..Len(sub_commands) :
                          /\ sub_commands[i].cls # "object"
                          /\ has_name(sub_commands[i])})]

\* SubParser._build_dict: objects of class 'object' are skipped, an object
\* whose _name is missing or false raises RuntimeError, a later object
\* replaces an earlier one of the same name
SubParser_build_dict(sub_commands) ==
    LET kept == {i \in 1..Len(sub_commands) : sub_commands[i].cls # "object"}
        bad == {i \in kept : ~has_name(sub_commands[i])}
    IN  IF bad # {}
        THEN [ok |-> FALSE, error |-> "RuntimeError", result |-> EmptyMap]
        ELSE [ok |-> TRUE, error |-> "", result |-> named(sub_commands, kept)]

\* Parser._build_dict: one MethodWrapper per entry of every cmd._commands,
\* a later command replaces an earlier one of the same name; an object
\* without _commands raises AttributeError
Parser_build_dict(commands) ==
    LET bad == {i \in 1..Len(commands) : commands[i].cls = "object"}
        names == UNION {DOMAIN commands[i]._commands : i \in 1..Len(commands)}
    IN  IF bad # {}
        THEN [ok |-> FALSE, error |-> "AttributeError", result |-> EmptyMap]
        ELSE [ok |-> TRUE, error |-> "",
              result |-> [n \in names |->
                  LET i == CHOOSE i \in 1..Len(commands) :
                              /\ n \in DOMAIN commands[i]._commands
                              /\ \A j \in 1..Len(commands) :
                                    n \in DOMAIN commands[j]._commands => j <= i
                  IN  MethodWrapper__init__(i, commands[i]._commands[n])]]

NoParser == [kind |-> "none", sub_commands |-> EmptyMap, prog |-> None]

\* SubParser.__init__ / Parser.__init__: a constructor that raises leaves
\* no dispatcher
SubParser__init__(sub_commands) ==
    LET d == SubParser_build_dict(sub_commands)
    IN  IF d.ok
        THEN [kind |-> "SubParser", sub_commands |-> d.result, prog |-> None]
        ELSE NoParser

Parser__init__(commands) ==
    LET d == Parser_build_dict(commands)
    IN  IF d.ok
        THEN [kind |-> "Parser", sub_commands |-> d.result, prog |-> None]
        ELSE NoParser

----------------------------------------------------------------------------
(* Dispatch *)

Tok_bash_completion == <<"-", "-", "bash", "-", "completion">>
Tok_bash_completion_script == <<"-", "-", "bash", "-", "completion", "-", "script">>

\* the record of one operation, before anything has happened
Idle ==
    [op |-> "none", kind |-> "none", given |-> <<>>, args |-> <<>>,
     dispatched |-> FALSE, key |-> <<>>, obj |-> 0, toTarget |-> <<>>,
     resolved |-> FALSE, command |-> <<>>, method |-> <<>>, toBinder |-> <<>>,
     tokenized |-> FALSE, parsed |-> EmptyMap, kwargs |-> EmptyMap,
     unused |-> EmptyMap, bound |-> EmptyMap,
     entry |-> BareObject, attached |-> BareObject, atHook |-> BareObject,
     atCall |-> BareObject, events |-> <<>>, outcome |-> "none",
     returned |-> None, result |-> None, list |-> <<>>, declared |-> {}]

\* the binder's account r of an invocation on self, entered into the record:
\* [self, rec]
Bound(rec, self, args, method, r) ==
    [self |-> r.self,
     rec |-> [rec EXCEPT !.resolved = TRUE, !.method = method.name,
                         !.toBinder = args, !.tokenized = r.tokenized,
                         !.parsed = r.parsed, !.kwargs = r.kwargs,
                         !.unused = r.unused, !.bound = r.bound,
                         !.entry = self, !.attached = r.attached,
                         !.atHook = r.atHook, !.atCall = r.atCall,
                         !.events = rec.events \o r.events,
                         !.outcome = r.outcome, !.returned = r.returned,
                         !.result = r.result]]

\* Commands.help: the usage line reads self._name; returns 1
Commands_help(rec, self) ==
    IF Key__name \in DOMAIN self.fields
    THEN [rec EXCEPT !.events = Append(@, "Commands.help"),
                     !.outcome = "return", !.result = IntV(1)]
    ELSE [rec EXCEPT !.outcome = "AttributeError"]

\* a search that takes the right-most registered name
LastIn(l, names) ==
    IF \E i \in 1..Len(l) : l[i] \in names
    THEN CHOOSE i \in 1..Len(l) :
            /\ l[i] \in names
            /\ \A j \in (i + 1)..Len(l) : l[j] \notin names
    ELSE 0

\* for index, arg in enumerate(args): if arg in names
find(l, names) == FirstIn(l, names)

\* a removal that drops the tokens before the name as well
DropThrough(l, i) == SubSeq(l, i + 1, Len(l))

\* args.pop(index): what is left of the token list once the name is taken
remaining(l, i) == pop(l, i)

\* Commands.__call__(args, prog): [self, rec]
Commands__call__(rec, self, args, prog) ==
    LET s0 == setattr(self, Key_prog, prog)
        index == find(args, DOMAIN s0._commands)
        method == s0._commands[args[index]]
    IN  IF index = 0
        THEN [self |-> s0, rec |-> Commands_help(rec, s0)]
        ELSE Bound([rec EXCEPT !.command = args[index]],
                   s0, remaining(args, index), method,
                   _call_method(s0, remaining(args, index), method))

\* the object the wrapper's _call_method acted on, after the invocation b
Acted(target, self, own, b) ==
    IF target.acts_on = "cmd"
    THEN [self |-> b.self, own |-> own, rec |-> b.rec]
    ELSE [self |-> self, own |-> b.self, rec |-> b.rec]

\* MethodWrapper.__call__(args, prog): [self, own, rec]
MethodWrapper__call__(rec, target, self, args, prog) ==
    LET own == setattr(target.own, Key_prog, prog)
        actor == IF target.acts_on = "cmd" THEN self ELSE own
    IN  Acted(target, self, own,
              Bound(rec, actor, args, target.method,
                    _call_method(actor, args, target.method)))

\* SubParser.bash_completion(args): the candidates of the sub command named
\* by args[2], else the names of all sub commands; returns 0 either way
\* (Commands.bash_completion returns 0)
bash_completion(rec, p, args) ==
    IF Len(args) >= 3 /\ args[3] \in DOMAIN p.sub_commands
    THEN [rec EXCEPT !.events = Append(@, "Commands.bash_completion"),
                     !.outcome = "return", !.result = IntV(0)]
    ELSE [rec EXCEPT !.events = Append(@, "bash_completion"),
                     !.outcome = "return", !.result = IntV(0)]

\* SubParser.bash_completion_script(prog): prints, returns nothing
bash_completion_script(rec) ==
    [rec EXCEPT !.events = Append(@, "bash_completion_script"),
                !.outcome = "return", !.result = None]

\* SubParser.help: returns 1
SubParser_help(rec) ==
    [rec EXCEPT !.events = Append(@, "SubParser.help"),
                !.outcome = "return", !.result = IntV(1)]

\* a run that does not look for meta-flags
NoMetaFlags(args) == "none"

\* the two tests for a meta-flag come before the search for a sub command
meta_flag(args) ==
    IF \E i \in 1..Len(args) : args[i] = Tok_bash_completion
    THEN "completion"
    ELSE IF \E i \in 1..Len(args) : args[i] = Tok_bash_completion_script
         THEN "script"
         ELSE "none"

\* `if not args`: the process arguments replace a missing or empty list
supplied(given) == Len(given) > 0

\* `return self.sub_commands[arg](args, prog)` on a Commands object: what
\* the call g leaves of the dispatcher and the objects
in_group(p, cs, obj, g) ==
    [parser |-> p, cmds |-> [cs EXCEPT ![obj] = g.self], rec |-> g.rec]

\* `return self.sub_commands[arg](args, prog)` on a MethodWrapper
in_wrapper(p, cs, key, obj, w) ==
    [parser |-> [p EXCEPT !.sub_commands[key].own = w.own],
     cmds |-> [cs EXCEPT ![obj] = w.self],
     rec |-> w.rec]

\* SubParser.run(args, prog), inherited by Parser, on dispatcher p over the
\* objects cs; argv is sys.argv: [parser, cmds, rec]
run(p, cs, given, givenProg, argv) ==
    LET args == IF supplied(given) THEN given ELSE Tail(argv)
        \* basename(sys.argv[0])
        prog == IF supplied(given) THEN givenProg ELSE StrV(Head(argv))
        p1 == [p EXCEPT !.prog = prog]
        rec0 == [Idle EXCEPT !.op = "run", !.kind = p.kind, !.given = given,
                             !.args = args]
        index == find(args, DOMAIN p.sub_commands)
        target == p.sub_commands[args[index]]
        rest == remaining(args, index)
        rec1 == [rec0 EXCEPT !.dispatched = TRUE, !.key = args[index],
                             !.obj = target.obj, !.toTarget = rest]
    IN  CASE meta_flag(args) = "completion" ->
                [parser |-> p1, cmds |-> cs, rec |-> bash_completion(rec0, p1, args)]
          [] meta_flag(args) = "script" ->
                [parser |-> p1, cmds |-> cs, rec |-> bash_completion_script(rec0)]
          [] meta_flag(args) = "none" /\ index = 0 ->
                [parser |-> p1, cmds |-> cs, rec |-> SubParser_help(rec0)]
          [] meta_flag(args) = "none" /\ index # 0 /\ ~target.wrapper ->
                in_group(p1, cs, target.obj,
                         Commands__call__(rec1, cs[target.obj], rest, prog))
          [] OTHER ->
                in_wrapper(p1, cs, args[index], target.obj,
                           MethodWrapper__call__(rec1, target, cs[target.obj],
                                                 rest, prog))

----------------------------------------------------------------------------
(* One process: a dispatcher over one CommandTest object, run once *)

T_test == S("test")
T_hello == S("hello")
T_default == S("default")
T_return_non_zero == <<"return", "-", "non", "-", "zero">>
T_dump == S("dump")
T_mixed == S("mixed")
T_eggs == S("eggs")
T_empty == <<>>

Prog == StrV(S("prog"))

\* the token lists given to run(): every list of at most MaxLen tokens over
\* one of three alphabets (names and meta-flags; hello's arguments; the
\* arguments of default, dump and mixed)
ResolutionTokens ==
    {T_test, T_hello, T_return_non_zero, T_eggs, Tok_d,
     Tok_bash_completion, Tok_bash_completion_script}

HelloTokens == {T_test, T_hello, T_eggs, T_empty, Tok_count, S("0"), S("5")}

BagTokens == {T_test, T_default, Tok_nodefault, T_eggs, T_dump, T_mixed, Tok_d}

Inputs ==
    SeqsUpTo(ResolutionTokens, MaxLen) \cup SeqsUpTo(HelloTokens, MaxLen)
        \cup SeqsUpTo(BagTokens, MaxLen)

\* sys.argv of the process, read when run() is given no tokens
Argvs ==
    {<<S("prog")>>, <<S("prog"), T_test, T_return_non_zero>>,
     <<S("prog"), T_return_non_zero>>, <<S("prog"), T_eggs>>,
     <<S("prog"), T_test, T_hello, T_eggs>>}

ArgvFor(given) == IF Len(given) = 0 THEN Argvs ELSE {<<S("prog")>>}

NoTwin == [parser |-> NoParser, cmds |-> <<>>, last |-> Idle]

Objects == <<CommandTest(TRUE, T_test)>>

Init ==
    /\ cmds = Objects
    /\ parser \in {SubParser__init__(Objects), Parser__init__(Objects)}
    /\ last = Idle
    /\ twin = NoTwin

\* parser.run(given, 'prog')
Run(given, argv) ==
    \E r \in {run(parser, cmds, given, Prog, argv)} :
        /\ parser' = r.parser
        /\ cmds' = r.cmds
        /\ last' = r.rec
        /\ UNCHANGED twin

\* one process makes one call of run()
RunOnce ==
    /\ last.op = "none"
    /\ \E given \in Inputs : \E argv \in ArgvFor(given) : Run(given, argv)

Next == RunOnce

Spec == Init /\ [][Next]_vars

----------------------------------------------------------------------------
(* An embedding program that keeps its Commands object and dispatcher and  *)
(* calls run() again and again                                             *)

ReuseTokens == {T_test, T_dump, T_return_non_zero, T_mixed, Tok_d}

ReuseInputs == SeqsUpTo(ReuseTokens, MaxReuseLen)

\* sys.argv of the embedding process
ReuseArgvs == {<<S("prog")>>, <<S("prog"), T_test, T_return_non_zero, Tok_d>>}

RunAgain ==
    \E given \in ReuseInputs :
        \E argv \in (IF Len(given) = 0 THEN ReuseArgvs ELSE {<<S("prog")>>}) :
            Run(given, argv)

NextReuse == RunAgain

SpecReuse == Init /\ [][NextReuse]_vars

----------------------------------------------------------------------------
(* Properties of the binder *)

AllMethods == {hello, default, return_non_zero, dump, mixed}

\* the method the last invocation resolved to
TheMethod == CHOOSE m \in AllMethods : m.name = last.method

\* the formal parameters of m, 'self' left out
Formals(m) == {m.argnames[i] : i \in 1..Len(m.argnames)} \ {S("self")}

\* the default m declares for parameter a
DeclaredDefault(m, a) ==
    m.defaults[(CHOOSE i \in 1..Len(m.argnames) : m.argnames[i] = a)
               - (Len(m.argnames) - Len(m.defaults))]

HasDefault(m, a) ==
    \E i \in (Len(m.argnames) - Len(m.defaults) + 1)..Len(m.argnames) :
        m.argnames[i] = a

Bindable == last.op = "run" /\ last.resolved /\ last.tokenized

\* C1: for a method without a parameter named 'args', every formal parameter
\* whose parsed value is not None is passed to the method with that value,
\* falsy or not; a formal parameter whose parsed value is None is left out of
\* the call, and the method then runs with the default its signature declares.
C1_Binding ==
    (Bindable /\ Key_args \notin Formals(TheMethod)) =>
        \A p \in Formals(TheMethod) \cap DOMAIN last.parsed :
            /\ last.parsed[p] # None =>
                  /\ p \in DOMAIN last.kwargs
                  /\ last.kwargs[p] = last.parsed[p]
                  /\ last.outcome = "return" => last.bound[p] = last.parsed[p]
            /\ last.parsed[p] = None =>
                  /\ p \notin DOMAIN last.kwargs
                  /\ (last.outcome = "return" /\ HasDefault(TheMethod, p)) =>
                        last.bound[p] = DeclaredDefault(TheMethod, p)

\* default() called without --nodefault: the flag parses to None, the call
\* leaves nodefault out and the method returns its declared 'spam'
C1_Witness ==
    /\ Bindable
    /\ last.method = Name_default
    /\ last.parsed[Key_nodefault] = None
    /\ Key_nodefault \notin DOMAIN last.kwargs
    /\ last.result = StrV(S("spam"))

\* hello called with an empty name and --count 0: both falsy values are passed
C1_FalsyWitness ==
    /\ Bindable
    /\ last.method = Name_hello
    /\ last.kwargs[Key_count] = IntV(0)
    /\ last.kwargs[Key_name] = StrV(<<>>)

\* what the binder offers to the object: the leftover keys, or every parsed
\* key when the method's only parameter is 'args'
Offered == IF all_rolled_into_args(last.kwargs)
           THEN last.kwargs[Key_args].m ELSE last.unused

\* within one invocation the binder leaves every attribute the object had
\* at its start as it was, and what it adds are exactly the offered keys no
\* attribute existed for, each with the value parsed in this invocation
BinderSetOnce ==
    Bindable =>
        /\ \A k \in DOMAIN last.entry.fields :
              /\ k \in DOMAIN last.attached.fields
              /\ last.attached.fields[k] = last.entry.fields[k]
        /\ \A k \in (DOMAIN last.attached.fields) \ (DOMAIN last.entry.fields) :
              /\ ~hasattr(last.entry, k)
              /\ k \in DOMAIN Offered
              /\ last.attached.fields[k] = Offered[k]
        /\ last.attached.members = last.entry.members
        /\ last.attached._commands = last.entry._commands

\* C2: over any sequence of invocations on one Commands object the binder
\* never changes an attribute that exists (a constructor field, a method, a
\* value attached earlier) and attaches a key only when no attribute of that
\* name exists; every attribute other than prog (set by __call__) and count
\* (counted up by hello) keeps its value from one invocation to the next, so
\* the first value attached under a name is the one that remains.
C2_SetOnce ==
    [][/\ BinderSetOnce'
       /\ \A k \in (DOMAIN cmds[1].fields) \ {Key_prog, Key_count} :
              /\ k \in DOMAIN cmds'[1].fields
              /\ cmds'[1].fields[k] = cmds[1].fields[k]]_vars

\* a later invocation parses debug = True while the object already holds the
\* debug = False an earlier invocation attached: it stays False
C2_Witness ==
    /\ Bindable
    /\ Key_debug \in DOMAIN last.entry.fields
    /\ last.entry.fields[Key_debug] = BoolV(FALSE)
    /\ Key_debug \in DOMAIN Offered
    /\ Offered[Key_debug] = BoolV(TRUE)
    /\ cmds[1].fields[Key_debug] = BoolV(FALSE)

----------------------------------------------------------------------------
(* The two dispatchers side by side: a SubParser run on [g, c] + rest and  *)
(* a Parser run on [c] + rest, each over its own fresh CommandTest object  *)

EquivTokens ==
    {T_eggs, Tok_d, Tok_count, S("5"), Tok_nodefault, T_test, T_hello,
     Tok_bash_completion}

Rests == SeqsUpTo(EquivTokens, MaxRest)

InitEquiv ==
    /\ cmds = Objects
    /\ parser = SubParser__init__(Objects)
    /\ last = Idle
    /\ twin = [parser |-> Parser__init__(Objects), cmds |-> Objects, last |-> Idle]

RunBoth ==
    /\ last.op = "none"
    /\ \E g \in DOMAIN parser.sub_commands :
       \E c \in DOMAIN cmds[parser.sub_commands[g].obj]._commands :
       \E rest \in Rests :
       \E r \in {run(parser, cmds, <<g, c>> \o rest, Prog, <<S("prog")>>)} :
       \E f \in {run(twin.parser, twin.cmds, <<c>> \o rest, Prog, <<S("prog")>>)} :
          /\ parser' = r.parser
          /\ cmds' = r.cmds
          /\ last' = r.rec
          /\ twin' = [parser |-> f.parser, cmds |-> f.cmds, last |-> f.rec]

NextEquiv == RunBoth

SpecEquiv == InitEquiv /\ [][NextEquiv]_vars

\* the attributes of an object other than prog
Ambient(self) == [k \in (DOMAIN self.fields) \ {Key_prog} |-> self.fields[k]]

\* C3: the sub-command dispatcher on [g, c] + rest and the flat dispatcher on
\* [c] + rest, each over a fresh equal group, call the same method with the
\* same keyword arguments, leave the same attributes other than prog on the
\* group object, and return the same value, which is the value the method
\* returned whenever the method returned one.
C3_FlatEqualsSub ==
    last.op = "run" =>
        /\ twin.last.op = "run"
        /\ twin.last.resolved = last.resolved
        /\ twin.last.method = last.method
        /\ twin.last.toBinder = last.toBinder
        /\ twin.last.tokenized = last.tokenized
        /\ twin.last.kwargs = last.kwargs
        /\ twin.last.bound = last.bound
        /\ twin.last.outcome = last.outcome
        /\ twin.last.result = last.result
        /\ Ambient(twin.cmds[1]) = Ambient(cmds[1])
        /\ (last.resolved /\ last.tokenized /\ last.outcome = "return") =>
              /\ last.result = last.returned
              /\ twin.last.result = twin.last.returned

\* ['test', 'default', '--nodefault', 'eggs'] and ['default', '--nodefault',
\* 'eggs']: both call default(nodefault='eggs'), return the string 'eggs' and
\* leave debug = False on the group
C3_Witness ==
    /\ last.given = <<T_test, T_default, Tok_nodefault, T_eggs>>
    /\ twin.last.given = <<T_default, Tok_nodefault, T_eggs>>
    /\ last.method = Name_default /\ twin.last.method = Name_default
    /\ twin.last.kwargs = [k \in {Key_nodefault} |-> StrV(T_eggs)]
    /\ last.result = StrV(T_eggs) /\ twin.last.result = StrV(T_eggs)
    /\ twin.cmds[1].fields[Key_debug] = BoolV(FALSE)
    /\ cmds[1].fields[Key_debug] = BoolV(FALSE)

----------------------------------------------------------------------------
(* Properties of one run *)

Ran == last.op = "run"

MetaFlags == {Tok_bash_completion, Tok_bash_completion_script}

Has(l, names) == \E i \in 1..Len(l) : l[i] \in names

Happened(e) == \E i \in 1..Len(last.events) : last.events[i] = e

\* the names the dispatcher matches tokens against
Registered == DOMAIN parser.sub_commands

\* the run ended in a help listing and the failure value, and nothing else
HelpOnly ==
    /\ last.outcome = "return"
    /\ last.result = IntV(1)
    /\ Len(last.events) = 1
    /\ last.events[1] \in {"SubParser.help", "Commands.help"}
    /\ ~Happened("pre_command") /\ ~Happened("method")
    /\ Ambient(cmds[1]) = Ambient(Objects[1])

\* no token names a group (a command for the flat dispatcher), or the group
\* that was matched finds no command name among the tokens left
Unresolvable(tokens) ==
    /\ ~Has(tokens, MetaFlags)
    /\ \/ ~Has(tokens, Registered)
       \/ /\ last.kind = "SubParser"
          /\ last.dispatched
          /\ ~Has(last.toTarget, DOMAIN cmds[last.obj]._commands)

\* C4: when the token list given to run holds no meta-flag and no token equal
\* to a registered name at the dispatcher, or none equal to a command name
\* inside the matched group, run returns 1 after the help listing, raises
\* nothing, calls neither a command method nor pre_command and attaches
\* nothing.
C4_ResolutionFailure == (Ran /\ Unresolvable(last.given)) => HelpOnly

\* The same for the token lists that are not empty: an empty list is
\* replaced by the process arguments before the search.
C4_NonEmptyResolutionFailure ==
    (Ran /\ Len(last.given) > 0 /\ Unresolvable(last.given)) => HelpOnly

\* run([]) in a process started as `prog test return-non-zero`
C4_EmptyListRunsArgv ==
    /\ Ran
    /\ last.given = <<>>
    /\ last.args = <<T_test, T_return_non_zero>>
    /\ Happened("method")

\* C5 as claimed: whenever the method declares 'args', with or without other
\* formal parameters, args is the whole parsed mapping, nothing is left over,
\* and every parsed key that was no attribute of the group is attached with
\* its parsed value when the method is called.
C5_AbsorbsAndAttachesAlways ==
    (Bindable /\ Key_args \in Formals(TheMethod)) =>
        /\ last.kwargs[Key_args] = DictV(last.parsed)
        /\ last.unused = EmptyMap
        /\ \A k \in DOMAIN last.parsed :
              ~hasattr(last.entry, k) =>
                  /\ k \in DOMAIN last.atCall.fields
                  /\ last.atCall.fields[k] = last.parsed[k]

\* C5: whenever the method declares 'args', args is the whole parsed mapping
\* and nothing is left over; when 'args' is its only formal parameter, every
\* parsed key that was no attribute of the group is attached with its parsed
\* value before pre_command and the method run, and existing attributes keep
\* their values; when it declares other formal parameters too, nothing is
\* attached.
C5_ArgsAbsorption ==
    (Bindable /\ Key_args \in Formals(TheMethod)) =>
        /\ last.kwargs[Key_args] = DictV(last.parsed)
        /\ last.unused = EmptyMap
        /\ Formals(TheMethod) = {Key_args} =>
              /\ \A k \in DOMAIN last.parsed :
                    ~hasattr(last.entry, k) =>
                        /\ k \in DOMAIN last.atHook.fields
                        /\ last.atHook.fields[k] = last.parsed[k]
                        /\ last.atCall.fields[k] = last.parsed[k]
              /\ \A k \in DOMAIN last.entry.fields :
                    last.atCall.fields[k] = last.entry.fields[k]
        /\ Formals(TheMethod) # {Key_args} =>
              last.atCall.fields = last.entry.fields

\* dump -d: args == {count: None, debug: True}, and debug = True is on the
\* group when dump is called while count keeps the constructor's 0
C5_Witness ==
    /\ Bindable
    /\ last.method = Name_dump
    /\ last.kwargs[Key_args].m[Key_debug] = BoolV(TRUE)
    /\ Key_debug \notin DOMAIN last.entry.fields
    /\ last.atCall.fields[Key_debug] = BoolV(TRUE)
    /\ last.atCall.fields[Key_count] = IntV(0)

\* C6: an invocation that resolved and tokenized goes parse_args, attach,
\* pre_command, method, each once; pre_command sees the attributes attached
\* and the method is called on the object as pre_command left it; when
\* parse_args fails neither pre_command nor the method runs.
C6_Order ==
    /\ Bindable =>
          /\ last.events = <<"parse_args", "attach", "pre_command", "method">>
          /\ last.atHook = last.attached
          /\ last.atCall = last.atHook
    /\ (Ran /\ last.resolved /\ ~last.tokenized) =>
          /\ last.events = <<"parse_args">>
          /\ last.outcome = "SystemExit"
          /\ cmds[last.obj] = last.entry

\* an invocation that attached debug: pre_command already sees it
C6_Witness ==
    /\ Bindable
    /\ Key_debug \notin DOMAIN last.entry.fields
    /\ Key_debug \in DOMAIN last.atHook.fields
    /\ last.events = <<"parse_args", "attach", "pre_command", "method">>

\* l with the element at index i taken out is m
Without(l, i, m) ==
    /\ Len(m) = Len(l) - 1
    /\ \A j \in 1..(i - 1) : m[j] = l[j]
    /\ \A j \in (i + 1)..Len(l) : m[j - 1] = l[j]

\* the token at index i of l is the left-most one in names, and m is l
\* without exactly that token
TakesLeftmost(l, names, name, m) ==
    \E i \in 1..Len(l) :
        /\ l[i] = name
        /\ name \in names
        /\ \A j \in 1..(i - 1) : l[j] \notin names
        /\ Without(l, i, m)

C10_MetaFlags ==
    (Ran /\ Has(last.given, MetaFlags)) =>
        /\ ~last.dispatched /\ ~last.resolved
        /\ ~Happened("pre_command") /\ ~Happened("method")
        /\ cmds = Objects
        /\ Has(last.given, {Tok_bash_completion}) =>
              last.outcome = "return" /\ last.result = IntV(0)

\* both meta-flags after a group name and a command name: 0, nothing called
C10_Witness ==
    /\ Ran
    /\ last.given = <<T_test, T_hello, Tok_bash_completion_script, Tok_bash_completion>>
    /\ last.result = IntV(0)
    /\ ~last.dispatched

----------------------------------------------------------------------------
(* Discovery: Commands.__init__ on an object of a class with up to two     *)
(* members of its own, named by any identifier of at most MaxIdLen pieces  *)

Identifiers == SeqsUpTo({"a", "_"}, MaxIdLen) \ {<<>>}

\* how a member is declared: with one @opt, with @noargs, with an @opt()
\* that names no option, or without any decorator
Declarations == {"opt", "noargs", "marker", "plain"}

Declared(name, how) ==
    LET f == Def(name, <<S("self")>>, <<>>)
    IN  CASE how = "opt" ->
                opt(f, Option(<<Tok_count>>, "store", None, None, "str", "1"))
          [] how = "noargs" -> noargs(f)
          [] how = "marker" ->
                opt(f, Option(<<>>, "store", None, None, "str", "1"))
          [] OTHER -> f

\* no member, one member, or two members under different identifiers
Drawn ==
    {{}} \cup {{x} : x \in Identifiers \X Declarations}
         \cup {{p[1], p[2]} :
                  p \in {q \in (Identifiers \X Declarations)
                                  \X (Identifiers \X Declarations) :
                            q[1][1] # q[2][1]}}

NoObjects == <<>>

InitBare ==
    /\ cmds = NoObjects
    /\ parser = NoParser
    /\ last = Idle
    /\ twin = NoTwin

Discover ==
    /\ last.op = "none"
    /\ \E d \in Drawn :
          /\ cmds' = <<Commands__init__("Drawn",
                          {Plain(n) : n \in CommandsMethods} \cup
                          {[name |-> x[1], obj |-> Declared(x[1], x[2])] : x \in d})>>
          /\ last' = [Idle EXCEPT !.op = "discover", !.declared = d]
    /\ UNCHANGED <<parser, twin>>

NextDiscovery == Discover

SpecDiscovery == InitBare /\ [][NextDiscovery]_vars

\* name is the identifier id with every '_' replaced by '-'
Hyphenated(id, name) ==
    /\ Len(name) = Len(id)
    /\ \A i \in 1..Len(id) : name[i] = IF id[i] = "_" THEN "-" ELSE id[i]

\* name with every '-' replaced by '_', as _parse_args converts keys, is id
Underscored(name, id) ==
    /\ Len(id) = Len(name)
    /\ \A i \in 1..Len(name) : id[i] = IF name[i] = "-" THEN "_" ELSE name[i]

\* the declared members that carry an option list
WithOptions == {x \in last.declared : x[2] # "plain"}

\* the registry holds exactly one entry per member of Q, under its
\* hyphenated name, which converts back to the identifier
RegistryIs(Q) ==
    LET reg == cmds[1]._commands IN
    /\ \A x \in Q :
          \E n \in DOMAIN reg :
              /\ Hyphenated(x[1], n)
              /\ reg[n].name = x[1]
              /\ Underscored(n, x[1])
              /\ \A n2 \in DOMAIN reg : reg[n2].name = x[1] => n2 = n
    /\ \A n \in DOMAIN reg : \E x \in Q : reg[n].name = x[1]
    /\ Cardinality(DOMAIN reg) = Cardinality(Q)

\* C8 as claimed: one registry entry per method that carries an option list
\* (the no-arguments form included), none for any other member, named by the
\* identifier with '_' replaced by '-', distinct methods under distinct
\* names, and the name converts back to the identifier.
C8_EveryOptionMethod ==
    last.op = "discover" => RegistryIs(WithOptions)

\* C8: the same of the members whose identifier does not start with '__';
\* a member whose identifier starts with '__' gets no entry, option list or
\* not.
C8_Discovery ==
    last.op = "discover" =>
        RegistryIs({x \in WithOptions : ~startswith__(x[1])})

\* a_a declared with @noargs next to an undecorated a: the registry is
\* exactly {a-a}
C8_Witness ==
    /\ last.op = "discover"
    /\ last.declared = {<<<<"a", "_", "a">>, "noargs">>, <<<<"a">>, "plain">>}
    /\ DOMAIN cmds[1]._commands = {<<"a", "-", "a">>}

----------------------------------------------------------------------------
(* Construction of the two dispatchers from a list of objects *)

Entries ==
    {CommandTest(TRUE, T_test), CommandTest(TRUE, S("db")),
     CommandTest(FALSE, <<>>), CommandTest(TRUE, <<>>), BareObject}

Lists == SeqsUpTo(Entries, MaxGroups)

\* SubParser(list)
ConstructSub ==
    /\ last.op = "none"
    /\ \E list \in Lists :
          LET d == SubParser_build_dict(list) IN
          /\ parser' = SubParser__init__(list)
          /\ cmds' = list
          /\ last' = [Idle EXCEPT !.op = "construct", !.kind = "SubParser",
                                  !.list = list,
                                  !.outcome = IF d.ok THEN "return" ELSE d.error]
    /\ UNCHANGED twin

\* Parser(list)
ConstructFlat ==
    /\ last.op = "none"
    /\ \E list \in Lists :
          LET d == Parser_build_dict(list) IN
          /\ parser' = Parser__init__(list)
          /\ cmds' = list
          /\ last' = [Idle EXCEPT !.op = "construct", !.kind = "Parser",
                                  !.list = list,
                                  !.outcome = IF d.ok THEN "return" ELSE d.error]
    /\ UNCHANGED twin

NextConstruct == ConstructSub \/ ConstructFlat

SpecConstruct == InitBare /\ [][NextConstruct]_vars

\* a Commands object of the list has no _name, or an empty one
Nameless(o) ==
    /\ o.cls # "object"
    /\ Key__name \notin DOMAIN o.fields \/ o.fields[Key__name] = StrV(<<>>)

HasNameless(list) == \E i \in 1..Len(list) : Nameless(list[i])

C9_FlatAcceptsNameless ==
    /\ last.op = "construct"
    /\ last.kind = "Parser"
    /\ last.list = <<CommandTest(FALSE, <<>>)>>
    /\ parser.kind = "Parser"
    /\ T_hello \in DOMAIN parser.sub_commands


----------------------------------------------------------------------------
(* Commands.split *)

MaxItems == 3          \* most entries of the mapping given to split
MaxPositionals == 2    \* longest key list given to split

\* what kwargs.items() is under the interpreters setup.py names: a list made
\* before the loop (Python 2.6, 2.7) or a view of the live dict (Python 3)
Builds == {"items_list", "items_view"}

\* a dict as its items in iteration order: the dict itself
items_keys(items) == {items[i][1] : i \in 1..Len(items)}

AsMap(items) ==
    [k \in items_keys(items) |->
        items[CHOOSE i \in 1..Len(items) : items[i][1] = k][2]]

\* del kwargs[key]: KeyError when the key is not there
del(st, key) ==
    IF key \in DOMAIN st.kwargs
    THEN [st EXCEPT !.kwargs = [k \in (DOMAIN st.kwargs) \ {key} |-> st.kwargs[k]]]
    ELSE [st EXCEPT !.outcome = "KeyError"]

\* args[key] = value, when the del before it has not raised
taken(st, key, value) ==
    IF st.outcome = "running"
    THEN [st EXCEPT !.args = Put(st.args, key, value)]
    ELSE st

\* if key in positionals: del kwargs[key]; args[key] = value
take_positional(st, key, value, positionals) ==
    IF \E i \in 1..Len(positionals) : positionals[i] = key
    THEN taken(del(st, key), key, value)
    ELSE st

\* if value is None: del kwargs[key]
drop_none(st, key, value) ==
    IF st.outcome = "running" /\ value = None THEN del(st, key) ELSE st

\* the next step of the iteration over a view finds the dict of another size
\* than when the iteration began: RuntimeError
changed_size(st, build) ==
    build = "items_view" /\ Cardinality(DOMAIN st.kwargs) # st.used

\* for key, value in kwargs.items(): ...; return (args, kwargs)
RECURSIVE split_loop(_, _, _, _, _)
split_loop(st, items, i, positionals, build) ==
    IF st.outcome # "running" THEN st
    ELSE IF changed_size(st, build)
         THEN [st EXCEPT !.outcome = "RuntimeError"]
         ELSE IF i > Len(items)
              THEN [st EXCEPT !.outcome = "return"]
              ELSE split_loop(drop_none(take_positional(st, items[i][1], items[i][2],
                                                        positionals),
                                        items[i][1], items[i][2]),
                              items, i + 1, positionals, build)

\* Commands.split(args, positionals) on the dict `given`, whose items come in
\* the order of `items`: kwargs = args.copy(); args = {}; the loop
split(given, items, positionals, build) ==
    split_loop([given |-> given, kwargs |-> given, args |-> EmptyMap,
                used |-> Cardinality(DOMAIN given), outcome |-> "running"],
               items, 1, positionals, build)

SplitKeys == {Key_debug, Key_name, Key_count}

SplitValues == {None, IntV(0), StrV(<<>>), StrV(S("x"))}

\* the dicts given to split, each in every order its items can come in
Mappings ==
    {m \in SeqsUpTo(SplitKeys \X SplitValues, MaxItems) :
        \A i, j \in 1..Len(m) : i # j => m[i][1] # m[j][1]}

Positionals == SeqsUpTo(SplitKeys, MaxPositionals)

InitSplit ==
    /\ cmds = Objects
    /\ parser = NoParser
    /\ last = Idle
    /\ twin = NoTwin

\* cmds[1].split(dict(items), positionals) under one of the interpreters
Split ==
    /\ last.op = "none"
    /\ \E build \in Builds : \E items \in Mappings : \E positionals \in Positionals :
       \E r \in {split(AsMap(items), items, positionals, build)} :
          last' = [op |-> "split", build |-> build, items |-> items,
                   positionals |-> positionals, outcome |-> r.outcome,
                   P |-> r.args, K |-> r.kwargs, after |-> r.given]
    /\ UNCHANGED <<parser, cmds, twin>>

NextSplit == Split

SpecSplit == InitSplit /\ [][NextSplit]_vars

\* the key list as a set
InPositionals == {last.positionals[i] : i \in 1..Len(last.positionals)}

\* the pair the call is to return: the entries under the listed keys, and
\* the other entries whose value is not None
SplitPair ==
    /\ last.P = [k \in items_keys(last.items) \cap InPositionals |->
                    AsMap(last.items)[k]]
    /\ last.K = [k \in {x \in items_keys(last.items) \ InPositionals :
                           AsMap(last.items)[x] # None} |->
                    AsMap(last.items)[k]]

\* C11: split(args, positionals) completes without error for every mapping
\* and every key list and returns (P, K), where P holds exactly the entries
\* whose key is listed and K exactly the entries whose key is not listed and
\* whose value is not None; the mapping passed in is left unchanged.
C11_SplitTotal ==
    last.op = "split" =>
        /\ last.outcome = "return"
        /\ SplitPair
        /\ last.after = AsMap(last.items)

\* whenever split returns, it returns that pair and the mapping is unchanged
C11_PairWhenReturned ==
    (last.op = "split" /\ last.outcome = "return") =>
        /\ SplitPair
        /\ last.after = AsMap(last.items)

\* under either interpreter split does not return when a listed key holds None
C11_NoneUnderListedKeyRaises ==
    (last.op = "split" /\ \E k \in items_keys(last.items) \cap InPositionals :
                             AsMap(last.items)[k] = None) =>
        last.outcome \in {"KeyError", "RuntimeError"}

\* split({'debug': None}, ['debug']) raises KeyError under both interpreters
C11_KeyErrorList ==
    /\ last.op = "split"
    /\ last.build = "items_list"
    /\ last.items = <<<<Key_debug, None>>>>
    /\ last.positionals = <<Key_debug>>
    /\ last.outcome = "KeyError"

C11_KeyErrorView ==
    /\ last.op = "split"
    /\ last.build = "items_view"
    /\ last.items = <<<<Key_debug, None>>>>
    /\ last.positionals = <<Key_debug>>
    /\ last.outcome = "KeyError"

\* split({'name': 'x'}, ['name']) under Python 3: RuntimeError
C11_RuntimeErrorView ==
    /\ last.op = "split"
    /\ last.build = "items_view"
    /\ last.items = <<<<Key_name, StrV(S("x"))>>>>
    /\ last.positionals = <<Key_name>>
    /\ last.outcome = "RuntimeError"

\* split({'name': 'x', 'count': None}, ['name']) under Python 2 returns
\* ({'name': 'x'}, {})
C11_ReturnsList ==
    /\ last.op = "split"
    /\ last.build = "items_list"
    /\ last.items = <<<<Key_name, StrV(S("x"))>>, <<Key_count, None>>>>
    /\ last.positionals = <<Key_name>>
    /\ last.outcome = "return"
    /\ DOMAIN last.P = {Key_name}
    /\ last.K = EmptyMap

====
